---- MODULE Spec2Model ----
(***************************************************************************)
(* A model of dragonkick (src/dragonkick/main.py): one run of main() as a  *)
(* sequence of steps over a small file system, the command-line options    *)
(* and the outcomes of the external loader (cle) and analysis bridge       *)
(* (pyghidra).                                                             *)
(*                                                                         *)
(* Strings are sequences of tokens: "/" is the path separator, "." a dot,  *)
(* "*" the glob wildcard and any other token a run of ordinary characters. *)
(* The string "/sr/.hid/x" is <<"/", "sr", "/", ".", "hid", "/", "x">>.    *)
(* A path component is the token sequence between two separators, and a    *)
(* canonical file-system path is a sequence of components from the root.   *)
(***************************************************************************)
EXTENDS Integers, Sequences, FiniteSets, TLC

SEP == "/"
DOT == "."
STAR == "*"

(* ---------------------------------------------------------------------- *)
(* String helpers                                                          *)
(* ---------------------------------------------------------------------- *)

Last(s) == s[Len(s)]
Front(s) == SubSeq(s, 1, Len(s) - 1)

RECURSIVE LStrip(_, _)
(* str.lstrip(ch): drop every leading token equal to ch. *)
LStrip(s, ch) ==
    IF s # <<>> /\ Head(s) = ch THEN LStrip(Tail(s), ch) ELSE s

RECURSIVE Split(_)
(* str.split("/"): the components between separators, empty ones kept. *)
Split(s) ==
    IF s = <<>> THEN << <<>> >>
    ELSE IF Head(s) = SEP THEN << <<>> >> \o Split(Tail(s))
    ELSE LET r == Split(Tail(s))
         IN  << <<Head(s)>> \o Head(r) >> \o Tail(r)

RECURSIVE Join(_)
(* "/".join(comps) *)
Join(comps) ==
    IF comps = <<>> THEN <<>>
    ELSE IF Len(comps) = 1 THEN comps[1]
    ELSE comps[1] \o <<SEP>> \o Join(Tail(comps))

DotDot == <<DOT, DOT>>
CurDir == <<DOT>>

StartsWith(s, n) == Len(s) >= n /\ \A i \in 1..n : s[i] = SEP

(* initial_slashes of posixpath.normpath: 0, 1, or 2 for exactly two. *)
InitialSlashes(s) ==
    IF ~StartsWith(s, 1) THEN 0
    ELSE IF StartsWith(s, 2) /\ ~StartsWith(s, 3) THEN 2
    ELSE 1

RECURSIVE NormComps(_, _, _)
(* The loop of posixpath.normpath over the split components. *)
NormComps(comps, new, slashes) ==
    IF comps = <<>> THEN new
    ELSE LET c == Head(comps)
             rest == Tail(comps)
         IN  IF c = <<>> \/ c = CurDir THEN NormComps(rest, new, slashes)
             ELSE IF c # DotDot
                     \/ (slashes = 0 /\ new = <<>>)
                     \/ (new # <<>> /\ Last(new) = DotDot)
                  THEN NormComps(rest, Append(new, c), slashes)
             ELSE IF new # <<>> THEN NormComps(rest, Front(new), slashes)
             ELSE NormComps(rest, new, slashes)

(* os.path.normpath *)
normpath(s) ==
    IF s = <<>> THEN CurDir
    ELSE LET slashes == InitialSlashes(s)
             body == Join(NormComps(Split(s), <<>>, slashes))
             out == [i \in 1..slashes |-> SEP] \o body
         IN  IF out = <<>> THEN CurDir ELSE out

(* ---------------------------------------------------------------------- *)
(* pathlib: a Path is held as its str(), the normal form pathlib keeps:    *)
(* no empty and no "." components, ".." components kept.                   *)
(* ---------------------------------------------------------------------- *)

IsAbs(s) == s # <<>> /\ Head(s) = SEP

(* PurePath.parts without the root *)
Parts(s) == SelectSeq(Split(s), LAMBDA c : c # <<>> /\ c # CurDir)

PathStr(abs, parts) ==
    IF abs THEN <<SEP>> \o Join(parts)
    ELSE IF parts = <<>> THEN CurDir ELSE Join(parts)

(* Path(s) *)
PurePath(s) == PathStr(IsAbs(s), Parts(s))

(* a / b *)
JoinPath(a, b) ==
    IF IsAbs(b) THEN PurePath(b) ELSE PathStr(IsAbs(a), Parts(a) \o Parts(b))

(* Path.parent: the last part dropped, whatever it is. *)
Parent(p) ==
    IF Parts(p) = <<>> THEN PurePath(p) ELSE PathStr(IsAbs(p), Front(Parts(p)))

(* Path.name *)
Name(p) == IF Parts(p) = <<>> THEN <<>> ELSE Last(Parts(p))

(* link_destination.relative_to(os.path.sep), for an absolute destination *)
RelativeToRoot(p) == PathStr(FALSE, Parts(p))

(* ---------------------------------------------------------------------- *)
(* The file system: a function from canonical paths (sequences of          *)
(* components below the root <<>>) to nodes.  kind is "dir", "file" or     *)
(* "link"; dest is a link's destination string; id names a file's content. *)
(* ---------------------------------------------------------------------- *)

Dir == [kind |-> "dir", dest |-> <<>>, id |-> ""]
File(id) == [kind |-> "file", dest |-> <<>>, id |-> id]
Link(dest) == [kind |-> "link", dest |-> dest, id |-> ""]

(* The working directory of the process. *)
Cwd == << <<"w">> >>

(* The kernel follows at most this many links in one path lookup. *)
OsLinkLimit == 8

Exists(fs, at) == at = <<>> \/ at \in DOMAIN fs
KindAt(fs, at) == IF at = <<>> THEN "dir" ELSE fs[at].kind

RECURSIVE Walk(_, _, _, _, _)
(* Path lookup as the kernel does it: from cur, through the components    *)
(* rest, following links in every component but the last, and in the last *)
(* when follow is set.  err is "" on success.                             *)
Walk(fs, cur, rest, follow, depth) ==
    IF rest = <<>> THEN [err |-> "", at |-> cur]
    ELSE LET c == Head(rest)
             more == Tail(rest)
             child == Append(cur, c)
         IN  IF c = DotDot
             THEN Walk(fs, IF cur = <<>> THEN cur ELSE Front(cur), more, follow, depth)
             ELSE IF child \notin DOMAIN fs THEN [err |-> "ENOENT", at |-> cur]
             ELSE IF fs[child].kind = "link" /\ (more # <<>> \/ follow)
                  THEN IF depth = 0 THEN [err |-> "ELOOP", at |-> cur]
                       ELSE Walk(fs, IF IsAbs(fs[child].dest) THEN <<>> ELSE cur,
                                 Parts(fs[child].dest) \o more, follow, depth - 1)
             ELSE IF fs[child].kind = "dir" \/ more = <<>>
                  THEN Walk(fs, child, more, follow, depth)
             ELSE [err |-> "ENOTDIR", at |-> cur]

StartDir(s) == IF IsAbs(s) THEN <<>> ELSE Cwd

Stat(fs, s) == Walk(fs, StartDir(s), Parts(s), TRUE, OsLinkLimit)
LStat(fs, s) == Walk(fs, StartDir(s), Parts(s), FALSE, OsLinkLimit)

(* Path.is_dir, Path.is_file, Path.is_symlink, os.path.lexists *)
is_dir(fs, s) == Stat(fs, s).err = "" /\ KindAt(fs, Stat(fs, s).at) = "dir"
is_file(fs, s) == Stat(fs, s).err = "" /\ KindAt(fs, Stat(fs, s).at) = "file"
is_symlink(fs, s) == LStat(fs, s).err = "" /\ KindAt(fs, LStat(fs, s).at) = "link"
lexists(fs, s) == LStat(fs, s).err = ""

(* Path.readlink, for a path that is a symlink *)
readlink(fs, s) == PurePath(fs[LStat(fs, s).at].dest)

(* The canonical path as a string. *)
CanonStr(at) == PathStr(TRUE, at)

RECURSIVE RealWalk(_, _, _, _)
(* realpath, not strict: like Walk with every link followed, but a        *)
(* component that does not exist is kept and the rest is joined to it     *)
(* lexically.                                                             *)
RealWalk(fs, cur, rest, depth) ==
    IF rest = <<>> THEN [err |-> "", at |-> cur]
    ELSE LET c == Head(rest)
             more == Tail(rest)
             child == Append(cur, c)
         IN  IF c = DotDot
             THEN RealWalk(fs, IF cur = <<>> THEN cur ELSE Front(cur), more, depth)
             ELSE IF child \notin DOMAIN fs THEN RealWalk(fs, child, more, depth)
             ELSE IF fs[child].kind = "link"
                  THEN IF depth = 0 THEN [err |-> "ELOOP", at |-> cur]
                       ELSE RealWalk(fs, IF IsAbs(fs[child].dest) THEN <<>> ELSE cur,
                                     Parts(fs[child].dest) \o more, depth - 1)
             ELSE RealWalk(fs, child, more, depth)

(* Path.resolve(): err is "ELOOP" when it raises on a symlink loop. *)
Resolve(fs, s) == RealWalk(fs, StartDir(s), Parts(s), OsLinkLimit)

(* glob.has_magic *)
HasMagic(s) == \E i \in 1..Len(s) : s[i] = STAR

(* The names in a directory that "*" matches: the ones not hidden. *)
Listing(fs, at) ==
    {p \in DOMAIN fs : Len(p) = Len(at) + 1 /\ Front(p) = at /\ Head(Last(p)) # DOT}

(* glob.glob(s), as a set (the order of a directory scan is arbitrary).   *)
(* A pattern is a path whose last component is "*".                        *)
Glob(fs, s) ==
    IF ~HasMagic(s) THEN (IF lexists(fs, s) THEN {s} ELSE {})
    ELSE IF Name(s) = <<STAR>> /\ ~HasMagic(Parent(s)) /\ is_dir(fs, Parent(s))
         THEN {JoinPath(Parent(s), Last(p)) : p \in Listing(fs, Stat(fs, Parent(s)).at)}
    ELSE {}

(* ---------------------------------------------------------------------- *)
(* ResolveWithRoot                                                         *)
(* ---------------------------------------------------------------------- *)

LinkLimit == 100

NoPath == <<"<none>">>

(* link_destination.relative_to(os.path.sep) raises ValueError: pathlib   *)
(* keeps a root of exactly two slashes, and "//x" is not below "/".       *)
RelativeToRaises(fs, current_path) ==
    InitialSlashes(fs[LStat(fs, current_path).at].dest) = 2

(* The next path for a path that is a symlink (the loop body after the    *)
(* is_symlink test).                                                      *)
NextPath(fs, current_path, sysroot) ==
    LET link_destination == readlink(fs, current_path)
        next_path == IF IsAbs(link_destination)
                     THEN JoinPath(sysroot, RelativeToRoot(link_destination))
                     ELSE JoinPath(Parent(current_path), link_destination)
    IN  PurePath(normpath(next_path))

(* One pass of the loop on its state: the loop is left (the state stays   *)
(* as it is) at a path that is not a symlink, or with the exception of    *)
(* relative_to; else one more link is followed.                           *)
LoopBody(fs, st, sysroot) ==
    IF st.err # "" \/ ~is_symlink(fs, st.path) THEN st
    ELSE IF RelativeToRaises(fs, st.path)
         THEN [path |-> st.path, links |-> st.links, err |-> "ValueError"]
    ELSE [path |-> NextPath(fs, st.path, sysroot), links |-> st.links + 1,
          err |-> ""]

RECURSIVE Iterate(_, _, _, _)
(* n passes of the loop, split in halves to keep the evaluation shallow. *)
Iterate(fs, st, sysroot, n) ==
    IF n = 0 \/ st.err # "" \/ ~is_symlink(fs, st.path) THEN st
    ELSE IF n = 1 THEN LoopBody(fs, st, sysroot)
    ELSE CHOOSE end \in {Iterate(fs, mid, sysroot, n - (n \div 2)) :
                          mid \in {Iterate(fs, st, sysroot, n \div 2)}} : TRUE

(* raised: RecursionError after LinkLimit passes that each followed a     *)
(* link; err: the exception that leaves the function, "" for none; path:  *)
(* the value returned; links: the links followed.                         *)
ResolveWithRoot(fs, path_to_resolve, sysroot) ==
    LET end == Iterate(fs, [path |-> PurePath(path_to_resolve), links |-> 0,
                            err |-> ""], sysroot, LinkLimit)
    IN  IF end.err # ""
        THEN [raised |-> FALSE, err |-> end.err, path |-> NoPath, links |-> end.links]
        ELSE IF end.links = LinkLimit
        THEN [raised |-> TRUE, err |-> "RecursionError", path |-> NoPath,
              links |-> end.links]
        ELSE [raised |-> FALSE, err |-> "", path |-> end.path, links |-> end.links]

(* ---------------------------------------------------------------------- *)
(* File-system updates                                                     *)
(* ---------------------------------------------------------------------- *)

IsPrefix(a, p) == Len(p) >= Len(a) /\ SubSeq(p, 1, Len(a)) = a

Restrict(f, S) == [x \in S |-> f[x]]

WriteNode(fs, at, node) ==
    [x \in DOMAIN fs \cup {at} |-> IF x = at THEN node ELSE fs[x]]

(* Where the path s names an entry: in the directory its parent resolves  *)
(* to, under its last component.                                          *)
Locate(fs, s) == Append(Stat(fs, Parent(s)).at, Name(s))

(* shutil.rmtree(s), for a directory that is not a symlink *)
rmtree(fs, s) ==
    Restrict(fs, {p \in DOMAIN fs : ~IsPrefix(Stat(fs, s).at, p)})

(* The entries of the directory s that is_file() holds of. *)
FilesIn(fs, s) ==
    IF ~is_dir(fs, s) THEN {}
    ELSE {p \in DOMAIN fs : /\ Len(p) = Len(Stat(fs, s).at) + 1
                            /\ Front(p) = Stat(fs, s).at
                            /\ is_file(fs, CanonStr(p))}

(* for x in s.iterdir(): if x.is_file(): x.unlink() *)
UnlinkFiles(fs, s) == Restrict(fs, DOMAIN fs \ FilesIn(fs, s))

(* Path.mkdir(exist_ok=True): err is the exception raised, "" for none. *)
mkdir(fs, s) ==
    IF is_dir(fs, s) THEN [err |-> "", fs |-> fs]
    ELSE IF lexists(fs, s) THEN [err |-> "FileExistsError", fs |-> fs]
    ELSE IF ~is_dir(fs, Parent(s)) THEN [err |-> "FileNotFoundError", fs |-> fs]
    ELSE [err |-> "", fs |-> WriteNode(fs, Locate(fs, s), Dir)]

(* shutil.copy2(src, dst): into the directory dst under the name of src,  *)
(* or onto the path dst when dst is no directory.                         *)
copy2(fs, src, dst) ==
    LET content == File(fs[Stat(fs, src).at].id)
    IN  IF is_dir(fs, dst)
        THEN WriteNode(fs, Append(Stat(fs, dst).at, Name(src)), content)
        ELSE WriteNode(fs, Locate(fs, dst), content)

(* ---------------------------------------------------------------------- *)
(* Exit codes                                                              *)
(* ---------------------------------------------------------------------- *)

EX_DATAERR == 65
EX_NOINPUT == 66
EX_UNAVAILABLE == 69
EX_SOFTWARE == 70
EX_CANTCREAT == 73
EX_IOERR == 74

(* ---------------------------------------------------------------------- *)
(* The world of a run: the files on disk and the command line              *)
(* ---------------------------------------------------------------------- *)

(* "/a/b" and its canonical path, from the names <<"a", "b">>. *)
S(names) == <<SEP>> \o Join([i \in 1..Len(names) |-> <<names[i]>>])
C(names) == [i \in 1..Len(names) |-> <<names[i]>>]

MkFS(entries) ==
    [p \in {e[1] : e \in entries} |-> (CHOOSE e \in entries : e[1] = p)[2]]

(* A root tree with two executables, a link to one of them, a second     *)
(* executable of the same name in another directory, a link to itself, a  *)
(* relative link that climbs two directories, a link to "//bin/ls" and    *)
(* the libraries the executables need, below the directory at.            *)
Tree(at) ==
    { <<at \o C(<<"bin">>), Dir>>,
      <<at \o C(<<"bin", "ls">>), File("ls")>>,
      <<at \o C(<<"bin", "cp">>), File("cp")>>,
      <<at \o C(<<"bin", "sh">>), Link(S(<<"bin", "ls">>))>>,
      <<at \o C(<<"sbin">>), Dir>>,
      <<at \o C(<<"sbin", "ls">>), File("ls")>>,
      <<at \o C(<<"sbin", "loop">>), Link(<<"loop">>)>>,
      <<at \o C(<<"sbin", "dbl">>), Link(<<SEP, SEP, "bin", SEP, "ls">>)>>,
      <<at \o C(<<"sbin", "esc">>),
        Link(<<DOT, DOT, SEP, DOT, DOT, SEP, "bin", SEP, "cp">>)>>,
      <<at \o C(<<"lib">>), Dir>>,
      <<at \o C(<<"lib", "libc">>), File("libc")>>,
      <<at \o C(<<"lib", "libsel">>), File("libsel")>> }

(* The host: its own root tree, a sysroot /sr, the working directory /w   *)
(* and /tmp, where projects are made.                                     *)
BaseEntries ==
    Tree(<<>>) \cup Tree(C(<<"sr">>))
    \cup { <<C(<<"sr">>), Dir>>, <<C(<<"w">>), Dir>>, <<C(<<"tmp">>), Dir>> }

ProjectName == "p"
ProjectDirArg == S(<<"tmp", "proj">>)
GprName == <<ProjectName, DOT, "gpr">>
ZipName == <<ProjectName, DOT, "zip">>

ProjAt == C(<<"tmp", "proj">>)

(* What an earlier run may have left at the project directory. *)
Layouts ==
    { {},
      { <<ProjAt, Dir>>,
        <<ProjAt \o C(<<ProjectName>>), Dir>>,
        <<ProjAt \o <<<<ProjectName>>, GprName>>, File("gpr")>> },
      { <<ProjAt, Dir>>,
        <<ProjAt \o C(<<"bin">>), Dir>>,
        <<ProjAt \o C(<<"bin", "old">>), File("old")>>,
        <<ProjAt \o C(<<"lib">>), Dir>>,
        <<ProjAt \o C(<<"lib", "oldlib">>), File("oldlib")>>,
        <<ProjAt \o C(<<"src">>), Dir>> },
      { <<ProjAt, Dir>>,
        <<ProjAt \o C(<<"bin">>), Dir>>,
        <<ProjAt \o C(<<"bin", "old">>), File("old")>>,
        <<ProjAt \o C(<<"lib">>), Dir>>,
        <<ProjAt \o C(<<"lib", "oldlib">>), File("oldlib")>>,
        <<ProjAt \o C(<<"src">>), Dir>>,
        <<ProjAt \o C(<<ProjectName>>), Dir>>,
        <<ProjAt \o <<<<ProjectName>>, GprName>>, File("gpr")>> } }

(* The values of --sysroot: the default, a directory, a missing path. *)
SysrootArgs == { <<SEP>>, S(<<"sr">>), S(<<"nosr">>) }

(* The target strings of the command line: two executables, a link to an  *)
(* executable, a link to itself, a missing file, a directory, a pattern,  *)
(* an executable named as another one, a link that climbs, a link to     *)
(* "//bin/ls", a relative path that climbs ("../../bin/ls") and a hidden  *)
(* name (".hid").                                                         *)
TargetArgs ==
    { S(<<"bin", "ls">>), S(<<"bin", "cp">>), S(<<"bin", "sh">>),
      S(<<"sbin", "loop">>), S(<<"bin", "MISSING">>), S(<<"lib">>),
      S(<<"bin", STAR>>),
      S(<<"sbin", "ls">>), S(<<"sbin", "esc">>), S(<<"sbin", "dbl">>),
      <<DOT, DOT, SEP, DOT, DOT, SEP, "bin", SEP, "ls">>,
      <<DOT, "hid">> }

MaxTargets == 2

TargetLists == UNION {[1..n -> TargetArgs] : n \in 1..MaxTargets}

(* The boolean options of GetParser that main reads to decide what to do. *)
(* (--verbose only adds log lines and is left out.)                       *)
Flags ==
    { "copy_to_project", "force_remove", "force_import",
      "remove_existing_binaries", "start_ghidra", "zip_project",
      "skip_dependency_import", "skip_target_analysis",
      "do_dependency_analysis", "do_target_decompilation", "ignore_missing" }

MaxFlags == 3

FlagSets == {F \in SUBSET Flags : Cardinality(F) <= MaxFlags}

(* The runs checked are of three kinds.  PathCases: every list of targets   *)
(* under every sysroot, with and without --ignore-missing, on a fresh     *)
(* project directory.  OptionCases: every set of at most MaxFlags options *)
(* on every project layout, for a pattern that matches executables and    *)
(* for a missing target, under a sysroot that exists and one that does    *)
(* not.                                                                    *)
PathCases ==
    [flags : SUBSET {"ignore_missing"}, sr : SysrootArgs, ts : TargetLists,
     layout : {{}}]

OptionCases ==
    [flags : FlagSets, sr : {S(<<"sr">>), S(<<"nosr">>)},
     ts : {<<S(<<"bin", STAR>>)>>, <<S(<<"bin", "MISSING">>)>>},
     layout : Layouts]

(* CopyCases: --copy-to-project, with and without the dependencies, for   *)
(* every list of executables and links to them, among them two           *)
(* executables of one name and a library that an executable needs.        *)
CopyTargets ==
    { S(<<"bin", "ls">>), S(<<"bin", "cp">>), S(<<"bin", "sh">>),
      S(<<"sbin", "ls">>), S(<<"lib", "libc">>) }

CopyCases ==
    [flags : {{"copy_to_project"}, {"copy_to_project", "skip_dependency_import"}},
     sr : {<<SEP>>, S(<<"sr">>)},
     ts : UNION {[1..n -> CopyTargets] : n \in 1..MaxTargets},
     layout : {{}}]

(* What an earlier run with --do-target-decompilation may have left in    *)
(* src/ls: the repository, the file and the link of a function that is    *)
(* no longer there, and the file of a function that fails now.            *)
StaleSources ==
    { <<ProjAt, Dir>>,
      <<ProjAt \o C(<<"src">>), Dir>>,
      <<ProjAt \o C(<<"src", "ls">>), Dir>>,
      <<ProjAt \o <<<<"src">>, <<"ls">>, <<DOT, "git">>>>, Dir>>,
      <<ProjAt \o <<<<"src">>, <<"ls">>, <<"00109000", DOT, "c">>>>, File("old")>>,
      <<ProjAt \o <<<<"src">>, <<"ls">>, <<"00109000", "::", "old", DOT, "c">>>>,
        Link(<<"00109000", DOT, "c">>)>>,
      <<ProjAt \o <<<<"src">>, <<"ls">>, <<"00103000", DOT, "c">>>>, File("stale")>> }

(* DecompCases: --do-target-decompilation, alone and with --zip-project,  *)
(* for every list of executables, on a fresh project directory and on one *)
(* with sources of an earlier run.                                        *)
DecompTargets == { S(<<"bin", "ls">>), S(<<"bin", "cp">>), S(<<"sbin", "ls">>) }

DecompCases ==
    [flags : {{"do_target_decompilation"}, {"do_target_decompilation", "zip_project"}},
     sr : {<<SEP>>},
     ts : UNION {[1..n -> DecompTargets] : n \in 1..MaxTargets},
     layout : {{}, StaleSources}]

Cases == PathCases \cup OptionCases \cup CopyCases \cup DecompCases

(* The namespace argparse returns. *)
GetParser(flags, sysroot, targets) ==
    [ targets |-> targets,
      sysroot |-> sysroot,
      project_name |-> ProjectName,
      project_dir |-> ProjectDirArg,
      copy_to_project |-> "copy_to_project" \in flags,
      force_remove |-> "force_remove" \in flags,
      force_import |-> "force_import" \in flags,
      remove_existing_binaries |-> "remove_existing_binaries" \in flags,
      start_ghidra |-> "start_ghidra" \in flags,
      zip_project |-> "zip_project" \in flags,
      skip_dependency_import |-> "skip_dependency_import" \in flags,
      skip_target_analysis |-> "skip_target_analysis" \in flags,
      do_dependency_analysis |-> "do_dependency_analysis" \in flags,
      do_target_decompilation |-> "do_target_decompilation" \in flags,
      ignore_missing |-> "ignore_missing" \in flags ]

(* ---------------------------------------------------------------------- *)
(* State                                                                   *)
(* ---------------------------------------------------------------------- *)

VARIABLES
    options,    \* the parsed command line
    fs,         \* the file system
    fs0,        \* the file system when main was called
    pc,         \* where main is
    outcome,    \* "running", "return", "return_none" or "raise"
    ret,        \* the exit code returned, when outcome = "return"
    exc,        \* the exception that left main, when outcome = "raise"
    sysroot,    \* main's sysroot
    ti,         \* the index in options.targets of the target to resolve next
    targets,    \* main's set targets
    deps,       \* main's set deps
    todo,       \* the members of the set being iterated still to be visited
    start_out,  \* how pyghidra.start() ended, "" before the call
    loaded,     \* the targets cle.Loader has loaded
    failed,     \* the targets cle.Loader has raised for
    opened,     \* how often pyghidra.open_program has opened each path
    archive,    \* the entries of the zip archive written
    commits,    \* the trees committed to the per-target repositories
    launched,   \* ghidraRun has been run
    zip_log,    \* what main logged at the zip step: "", "saved" or "failed"
    rwr,        \* the frame of a call of ResolveWithRoot made on its own
    zp          \* the frame of a call of ZipProject made on its own

vars == << options, fs, fs0, pc, outcome, ret, exc, sysroot, ti, targets, deps,
           todo, start_out, loaded, failed, opened, archive, commits, launched,
           zip_log, rwr, zp >>

(* No call of ResolveWithRoot on its own is under way. *)
NoFrame ==
    [path_to_resolve |-> NoPath, sysroot |-> NoPath, current_path |-> NoPath,
     passes |-> 0, result |-> "none"]

(* No call of ZipProject on its own is under way. *)
NoCall == [project_dir |-> NoPath, project_name |-> "", result |-> "none"]

(* main is called with the command line and on the project directory of   *)
(* one of the cases.                                                      *)
Start(cases) ==
    /\ rwr = NoFrame
    /\ zp = NoCall
    /\ zip_log = ""
    /\ \E case \in cases :
           /\ options = GetParser(case.flags, case.sr, case.ts)
           /\ fs = MkFS(BaseEntries \cup case.layout)
    /\ fs0 = fs
    /\ pc = "sysroot"
    /\ outcome = "running"
    /\ ret = 0
    /\ exc = ""
    /\ sysroot = NoPath
    /\ ti = 1
    /\ targets = {}
    /\ deps = {}
    /\ todo = {}
    /\ start_out = ""
    /\ loaded = {}
    /\ failed = {}
    /\ opened = <<>>
    /\ archive = {}
    /\ commits = {}
    /\ launched = FALSE

Init == Start(Cases)

(* return code *)
Return(code) ==
    /\ pc' = "done"
    /\ outcome' = "return"
    /\ ret' = code
    /\ exc' = ""

(* an exception nothing in main catches *)
Raise(e) ==
    /\ pc' = "done"
    /\ outcome' = "raise"
    /\ exc' = e
    /\ ret' = ret

Goto(label) ==
    /\ pc' = label
    /\ UNCHANGED << outcome, ret, exc >>

(* ---------------------------------------------------------------------- *)
(* main, lines 347-351: the sysroot                                        *)
(* ---------------------------------------------------------------------- *)

(* as SysrootMissing, were the test of line 349 left out *)
SysrootMissing_Never(f, root) == FALSE

(* Line 349 *)
SysrootMissing(f, root) == ~is_dir(f, root)

CheckSysroot ==
    /\ pc = "sysroot"
    /\ LET r == Resolve(fs, PurePath(normpath(options.sysroot)))
       IN  IF r.err # ""
           THEN Raise("RuntimeError") /\ UNCHANGED sysroot
           ELSE /\ sysroot' = CanonStr(r.at)
                /\ IF SysrootMissing(fs, CanonStr(r.at))
                   THEN Return(EX_NOINPUT)
                   ELSE Goto("targets")
    /\ UNCHANGED << rwr, zp, zip_log, options, fs, fs0, ti, targets, deps, todo, start_out, loaded, failed,
                    opened, archive, commits, launched >>

(* ---------------------------------------------------------------------- *)
(* main, lines 353-370: the targets                                        *)
(* ---------------------------------------------------------------------- *)

(* Lines 355-359: where the target string is looked up.  err is set when  *)
(* Path.resolve() raises.                                                 *)
TargetPath(f, root, arg) ==
    LET target == normpath(arg)
    IN  IF root = <<SEP>>
        THEN LET r == Resolve(f, PurePath(target))
             IN  [err |-> r.err, path |-> CanonStr(r.at)]
        ELSE [err |-> "", path |-> JoinPath(root, LStrip(LStrip(target, DOT), SEP))]

(* Lines 360-370 for one target string: the paths glob returns, each with *)
(* what ResolveWithRoot makes of it, sorted by what the inner loop does   *)
(* there.  raising: ResolveWithRoot raises RecursionError; invalid: it    *)
(* raises ValueError; notfile: the path returned is no regular file;      *)
(* found: the paths returned that are regular files.                      *)
Scan(f, root, arg) ==
    LET tp == TargetPath(f, root, arg)
        rs == {ResolveWithRoot(f, ex, root) : ex \in Glob(f, tp.path)}
    IN  IF tp.err # ""
        THEN [err |-> tp.err, raising |-> FALSE, invalid |-> FALSE,
              notfile |-> FALSE, found |-> {}]
        ELSE [err |-> "",
              raising |-> \E r \in rs : r.raised,
              invalid |-> \E r \in rs : r.err = "ValueError",
              notfile |-> \E r \in rs : r.err = "" /\ ~is_file(f, r.path),
              found |-> {r.path : r \in {x \in rs : x.err = "" /\ is_file(f, x.path)}}]

(* Line 364: a path that is no regular file is skipped. *)
SkipsMissing(opts) == opts.ignore_missing

AfterTargets == IF ti = Len(options.targets) THEN "cleanup" ELSE "targets"

(* One pass of the loop over options.targets.  The paths glob returns are *)
(* visited in an arbitrary order, so any of them the inner loop stops at  *)
(* can be the first.                                                      *)
ResolveTarget ==
    /\ pc = "targets"
    /\ \E scan \in {Scan(fs, sysroot, options.targets[ti])} :
           \/ /\ scan.err # ""
              /\ Raise("RuntimeError")
              /\ UNCHANGED << ti, targets >>
           \/ /\ scan.raising
              /\ Raise("RecursionError")
              /\ UNCHANGED << ti, targets >>
           \/ /\ scan.invalid
              /\ Raise("ValueError")
              /\ UNCHANGED << ti, targets >>
           \/ /\ scan.notfile
              /\ ~SkipsMissing(options)
              /\ Return(EX_NOINPUT)
              /\ UNCHANGED << ti, targets >>
           \/ /\ scan.err = ""
              /\ ~scan.raising /\ ~scan.invalid
              /\ ~scan.notfile \/ SkipsMissing(options)
              /\ targets' = targets \cup scan.found
              /\ ti' = ti + 1
              /\ Goto(AfterTargets)
    /\ UNCHANGED << rwr, zp, zip_log, options, fs, fs0, sysroot, deps, todo, start_out, loaded, failed,
                    opened, archive, commits, launched >>

(* ---------------------------------------------------------------------- *)
(* main, lines 372-412: the project directory                              *)
(* ---------------------------------------------------------------------- *)

project_dir(opts) ==
    IF opts.project_dir # <<>> THEN PurePath(normpath(opts.project_dir))
    ELSE PurePath(<<opts.project_name>>)

bin_dir(opts) == JoinPath(project_dir(opts), <<"bin">>)
lib_dir(opts) == JoinPath(project_dir(opts), <<"lib">>)
src_dir(opts) == JoinPath(project_dir(opts), <<"src">>)

ghidra_project(opts) ==
    JoinPath(JoinPath(project_dir(opts), <<opts.project_name>>),
             <<opts.project_name, DOT, "gpr">>)

(* as RemovesProject, were --remove-existing-binaries tested first *)
RemovesProject_Unless(f, opts) ==
    is_dir(f, project_dir(opts)) /\ opts.force_remove /\ ~opts.remove_existing_binaries

(* Line 386: the whole project directory is removed. *)
RemovesProject(f, opts) == is_dir(f, project_dir(opts)) /\ opts.force_remove

(* Lines 390-407: the files of lib/ and bin/ are removed. *)
RemovesBinaries(f, opts) == ~RemovesProject(f, opts) /\ opts.remove_existing_binaries

(* as Cleanup, were the files of lib/ left where they are *)
Cleanup_BinOnly(f, opts) ==
    IF RemovesProject(f, opts) THEN rmtree(f, project_dir(opts))
    ELSE IF RemovesBinaries(f, opts) THEN UnlinkFiles(f, bin_dir(opts))
    ELSE f

(* The file system after lines 386-407. *)
Cleanup(f, opts) ==
    IF RemovesProject(f, opts) THEN rmtree(f, project_dir(opts))
    ELSE IF RemovesBinaries(f, opts)
         THEN UnlinkFiles(UnlinkFiles(f, lib_dir(opts)), bin_dir(opts))
    ELSE f

RemoveExisting ==
    /\ pc = "cleanup"
    /\ IF RemovesProject(fs, options) /\ is_symlink(fs, project_dir(options))
       THEN Raise("OSError") /\ UNCHANGED fs
       ELSE fs' = Cleanup(fs, options) /\ Goto("exists")
    /\ UNCHANGED << rwr, zp, zip_log, options, fs0, sysroot, ti, targets, deps, todo, start_out,
                    loaded, failed, opened, archive, commits, launched >>

(* as AlreadyExists, were --force-import not looked at *)
AlreadyExists_NoForce(f, opts) == is_file(f, ghidra_project(opts))

(* Line 409 *)
AlreadyExists(f, opts) == is_file(f, ghidra_project(opts)) /\ ~opts.force_import

CheckProjectExists ==
    /\ pc = "exists"
    /\ IF AlreadyExists(fs, options) THEN Return(EX_CANTCREAT) ELSE Goto("start")
    /\ UNCHANGED << rwr, zp, zip_log, options, fs, fs0, sysroot, ti, targets, deps, todo, start_out,
                    loaded, failed, opened, archive, commits, launched >>

(* ---------------------------------------------------------------------- *)
(* main, lines 422-446: the analysis bridge and the project tree           *)
(* ---------------------------------------------------------------------- *)

(* How pyghidra.start() can end: it returns, or raises a ValueError or    *)
(* another exception.                                                     *)
StartOutcomes == {"ok", "ValueError", "Exception"}

(* as StartFailure, with one code for every exception *)
StartFailure_Same(e) == EX_UNAVAILABLE

(* Lines 426-433: the exit code for an exception of pyghidra.start(). *)
StartFailure(e) == IF e = "ValueError" THEN EX_UNAVAILABLE ELSE EX_SOFTWARE

(* Lines 422-435.  When pyghidra.started() is false after start() has     *)
(* returned, main falls off its end and returns None.                     *)
StartGhidra ==
    /\ pc = "start"
    /\ \E out \in StartOutcomes :
           /\ start_out' = out
           /\ IF out # "ok"
              THEN Return(StartFailure(out))
              ELSE \E is_started \in BOOLEAN :
                       IF is_started THEN Goto("setup")
                       ELSE /\ pc' = "done"
                            /\ outcome' = "return_none"
                            /\ UNCHANGED << ret, exc >>
    /\ UNCHANGED << rwr, zp, zip_log, options, fs, fs0, sysroot, ti, targets, deps, todo, loaded, failed,
                    opened, archive, commits, launched >>

RECURSIVE MakeDirs(_, _)
(* mkdir(exist_ok=True) of each path in turn, up to the first that raises *)
MakeDirs(f, paths) ==
    IF paths = <<>> THEN [err |-> "", fs |-> f]
    ELSE LET r == mkdir(f, Head(paths))
         IN  IF r.err # "" THEN r ELSE MakeDirs(r.fs, Tail(paths))

(* Lines 443-446 *)
ProjectTree(opts) ==
    << project_dir(opts), bin_dir(opts), lib_dir(opts), src_dir(opts) >>

SetupProject ==
    /\ pc = "setup"
    /\ \E r \in {MakeDirs(fs, ProjectTree(options))} :
           /\ fs' = r.fs
           /\ IF r.err # "" THEN Raise(r.err) /\ UNCHANGED todo
              ELSE /\ todo' = targets
                   /\ Goto(IF targets = {} THEN "check" ELSE "load")
    /\ UNCHANGED << rwr, zp, zip_log, options, fs0, sysroot, ti, targets, deps, start_out, loaded, failed,
                    opened, archive, commits, launched >>

(* ---------------------------------------------------------------------- *)
(* main, lines 450-512: the loader and the dependencies                    *)
(* ---------------------------------------------------------------------- *)

(* The libraries an executable needs, by its content. *)
Needed(id) ==
    IF id = "ls" THEN {<<"libc">>, <<"libsel">>}
    ELSE IF id = "cp" THEN {<<"libc">>}
    ELSE {}

(* Lines 450-461: use_system_libs and ld_path. *)
use_system_libs(root) == root = <<SEP>>

ld_path(root) ==
    IF root = <<SEP>> THEN <<>>
    ELSE << root, JoinPath(root, <<"lib">>), JoinPath(root, <<"lib64">>),
            JoinPath(JoinPath(root, <<"usr">>), <<"lib">>),
            JoinPath(JoinPath(root, <<"usr">>), <<"lib64">>) >>

(* The library directories of the host. *)
SystemLibs ==
    << S(<<"lib">>), S(<<"lib64">>), S(<<"usr", "lib">>), S(<<"usr", "lib64">>) >>

(* Where the loader looks for libraries. *)
SearchPath(root) ==
    ld_path(root) \o (IF use_system_libs(root) THEN SystemLibs ELSE <<>>)

(* The directories of the search path that hold the library name. *)
Holders(f, root, name) ==
    {i \in 1..Len(SearchPath(root)) : is_file(f, JoinPath(SearchPath(root)[i], name))}

(* ld.shared_objects of a loaded target: the main binary and each needed  *)
(* library found, at the first directory of the search path holding it.   *)
shared_objects(f, root, target) ==
    {[binary |-> target, is_main_bin |-> TRUE]}
    \cup {[binary |-> JoinPath(SearchPath(root)[CHOOSE i \in Holders(f, root, n) :
                                 \A j \in Holders(f, root, n) : i <= j], n),
           is_main_bin |-> FALSE] :
            n \in {m \in Needed(f[Stat(f, target).at].id) : Holders(f, root, m) # {}}}

(* Line 485-486: the objects whose resolved binary is a regular file. *)
abs_obj_path(f, obj) == CanonStr(Resolve(f, obj.binary).at)

Binaries(f, root, target, main) ==
    {abs_obj_path(f, obj) :
        obj \in {o \in shared_objects(f, root, target) :
                    /\ o.is_main_bin = main
                    /\ is_file(f, abs_obj_path(f, o))}}

(* as RecordsDeps, were --skip-dependency-import not looked at *)
RecordsDeps_Always(opts) == TRUE

(* Line 494: a dependency is recorded. *)
RecordsDeps(opts) == ~opts.skip_dependency_import

(* Lines 494-500: the dependencies deps.add() is called with. *)
NewDeps(f, root, opts, target) ==
    IF RecordsDeps(opts) THEN Binaries(f, root, target, FALSE) ELSE {}

RECURSIVE CopyAll(_, _, _)
(* shutil.copy2 of each path of the set into the directory dst *)
CopyAll(f, paths, dst) ==
    IF paths = {} THEN f
    ELSE LET q == CHOOSE x \in paths : TRUE
         IN  CopyAll(copy2(f, q, dst), paths \ {q}, dst)

(* Lines 491-499: the file system after the copies for one target. *)
Copied(f, root, opts, target) ==
    IF ~opts.copy_to_project THEN f
    ELSE CopyAll(CopyAll(f, Binaries(f, root, target, TRUE), bin_dir(opts)),
                 NewDeps(f, root, opts, target), lib_dir(opts))

(* as Dropped, were the target not removed *)
Dropped_Kept(ts, target) == ts

(* Lines 479-482: the targets left when the loader raises for one. *)
Dropped(ts, target) == ts \ {target}

(* One pass of the loop over list(targets): cle.Loader loads the target   *)
(* or raises.                                                             *)
LoadTarget ==
    /\ pc = "load"
    /\ \E target \in todo, loads \in BOOLEAN :
           /\ todo' = todo \ {target}
           /\ IF loads
              THEN /\ loaded' = loaded \cup {target}
                   /\ fs' = Copied(fs, sysroot, options, target)
                   /\ deps' = deps \cup NewDeps(fs, sysroot, options, target)
                   /\ UNCHANGED << targets, failed >>
              ELSE /\ targets' = Dropped(targets, target)
                   /\ failed' = failed \cup {target}
                   /\ UNCHANGED << loaded, fs, deps >>
           /\ Goto(IF todo \ {target} = {} THEN "check" ELSE "load")
    /\ UNCHANGED << rwr, zp, zip_log, options, fs0, sysroot, ti, start_out, opened, archive, commits,
                    launched >>

(* Line 514 *)
ImportsDeps(opts, ds) == ~opts.skip_dependency_import /\ ds # {}

(* Lines 510-514 *)
CheckTargets ==
    /\ pc = "check"
    /\ IF targets = {}
       THEN Return(EX_NOINPUT) /\ UNCHANGED todo
       ELSE IF ImportsDeps(options, deps)
            THEN todo' = deps /\ Goto("deps")
            ELSE todo' = targets /\ Goto("import")
    /\ UNCHANGED << rwr, zp, zip_log, options, fs, fs0, sysroot, ti, targets, deps, start_out, loaded, failed,
                    opened, archive, commits, launched >>

(* ---------------------------------------------------------------------- *)
(* main, lines 514-665: the imports                                        *)
(* ---------------------------------------------------------------------- *)

(* The exception of the bridge that open_program or the decompiler raises *)
BridgeErrors == {"BridgeError"}

(* How pyghidra.open_program can end: the program is open and the project *)
(* file is where main expects it; the program is open and the project     *)
(* file is not there; it raises.                                          *)
OpenOutcomes == {"saved", "elsewhere", "raise"}

(* The file system once the bridge has saved the project. *)
SaveProject(f, opts) ==
    LET dir == JoinPath(project_dir(opts), <<opts.project_name>>)
        made == IF lexists(f, dir) THEN f ELSE WriteNode(f, Locate(f, dir), Dir)
    IN  IF lexists(made, ghidra_project(opts)) THEN made
        ELSE WriteNode(made, Locate(made, ghidra_project(opts)), File("gpr"))

AfterOpen(f, opts, out) == IF out = "saved" THEN SaveProject(f, opts) ELSE f

(* opened with one more call for the path *)
Count(o, path) == IF path \in DOMAIN o THEN o[path] ELSE 0
Opened(o, path) ==
    [x \in DOMAIN o \cup {path} |-> IF x = path THEN Count(o, path) + 1 ELSE o[x]]

(* Lines 528-549: one pass of the loop over deps *)
ImportDep ==
    /\ pc = "deps"
    /\ \E dep \in todo, out \in OpenOutcomes :
           IF out = "raise"
           THEN Raise("BridgeError") /\ UNCHANGED << fs, opened, todo >>
           ELSE /\ opened' = Opened(opened, dep)
                /\ fs' = AfterOpen(fs, options, out)
                /\ IF todo = {dep}
                   THEN todo' = targets /\ Goto("import")
                   ELSE todo' = todo \ {dep} /\ Goto("deps")
    /\ UNCHANGED << rwr, zp, zip_log, options, fs0, sysroot, ti, targets, deps, start_out, loaded, failed,
                    archive, commits, launched >>

(* getFunctionsNoStubs(True): the functions of a program in the order of  *)
(* their addresses, by the content of its file: the entry point, the name *)
(* as str(function) gives it (a C++ operator can have "/" in its name),   *)
(* whether it is a thunk, whether decompiling it reports an error, and    *)
(* the C code the decompiler gives.                                       *)
FunctionsOf(id) ==
    IF id = "ls"
    THEN << [entry |-> "00101000", name |-> <<"main">>, thunk |-> FALSE,
             error |-> FALSE, c |-> "main"],
            [entry |-> "00102000", name |-> <<"puts">>, thunk |-> TRUE,
             error |-> FALSE, c |-> "puts"],
            [entry |-> "00103000", name |-> <<"bad">>, thunk |-> FALSE,
             error |-> TRUE, c |-> "bad"] >>
    ELSE IF id = "cp"
    THEN << [entry |-> "00101000", name |-> <<"main">>, thunk |-> FALSE,
             error |-> FALSE, c |-> "main"],
            [entry |-> "00104000", name |-> <<"operator", SEP>>, thunk |-> FALSE,
             error |-> FALSE, c |-> "div"] >>
    ELSE << [entry |-> "00101000", name |-> <<"main">>, thunk |-> FALSE,
             error |-> FALSE, c |-> "main"] >>

(* DecompileFunction, lines 57-72: signature is None when the result has  *)
(* an error message.                                                      *)
DecompileFunction(function) ==
    [ function |-> function.name,
      signature |-> IF function.error THEN "None" ELSE function.c,
      code |-> IF function.error THEN "error" ELSE function.c,
      filename |-> <<function.entry, DOT, "c">>,
      symlink |-> <<function.entry, "::">> \o function.name \o <<DOT, "c">> ]

(* Lines 629-636: the results a file and a link are written for, in the   *)
(* order of the functions.                                                *)
Written(functions) ==
    LET kept == SelectSeq(functions,
                          LAMBDA h : ~h.thunk /\ DecompileFunction(h).signature # "None")
    IN  [i \in 1..Len(kept) |-> DecompileFunction(kept[i])]

(* Lines 612-614: the links of the directory at are removed. *)
UnlinkLinks(f, at) ==
    Restrict(f, {p \in DOMAIN f :
                    ~(Len(p) = Len(at) + 1 /\ Front(p) = at /\ f[p].kind = "link")})

(* Path.symlink_to: err is the exception raised, "" for none. *)
symlink_to(f, s, dest) ==
    IF lexists(f, s) THEN [err |-> "FileExistsError", fs |-> f]
    ELSE IF ~is_dir(f, Parent(s)) THEN [err |-> "FileNotFoundError", fs |-> f]
    ELSE [err |-> "", fs |-> WriteNode(f, Locate(f, s), Link(dest))]

RECURSIVE WriteSources(_, _, _)
(* Lines 636-642: a file with the code and a link to it, per result, up   *)
(* to the first link that cannot be made.                                 *)
WriteSources(f, dir, ds) ==
    IF ds = <<>> THEN [err |-> "", fs |-> f]
    ELSE LET d == Head(ds)
             function_src == JoinPath(dir, d.filename)
             function_link == JoinPath(dir, d.symlink)
             withFile == WriteNode(f, Locate(f, function_src), File(d.code))
             r == symlink_to(withFile, function_link, d.filename)
         IN  IF r.err # "" THEN r ELSE WriteSources(r.fs, dir, Tail(ds))

(* Lines 608-610: src/<target name>, made with its parents, and the       *)
(* repository in it.                                                      *)
target_src(opts, target) == JoinPath(src_dir(opts), Name(target))

InitRepo(f, opts, target) ==
    LET made == MakeDirs(f, <<project_dir(opts), src_dir(opts),
                             target_src(opts, target)>>).fs
    IN  IF lexists(made, JoinPath(target_src(opts, target), <<DOT, "git">>)) THEN made
        ELSE WriteNode(made, Locate(made, JoinPath(target_src(opts, target),
                                                   <<DOT, "git">>)), Dir)

(* Lines 601-642: the file system after the decompilation of a target,    *)
(* and the exception that ended it, "" for none.                          *)
Decompiled(f, opts, target) ==
    LET made == InitRepo(f, opts, target)
        at == Stat(made, target_src(opts, target)).at
    IN  WriteSources(UnlinkLinks(made, at), target_src(opts, target),
                     Written(FunctionsOf(f[Stat(f, target).at].id)))

(* The names in the directory of a repository, as git add --all sees it. *)
WorkTree(f, s) ==
    {Last(p) : p \in {q \in DOMAIN f : /\ Len(q) = Len(Stat(f, s).at) + 1
                                       /\ Front(q) = Stat(f, s).at
                                       /\ Last(q) # <<DOT, "git">>}}

(* Lines 576-658: one pass of the loop over targets.  The decompiler can  *)
(* raise as well, and so can the writing of the sources.                  *)
ImportTarget ==
    /\ pc = "import"
    /\ \E target \in todo, out \in OpenOutcomes, decompiles \in BOOLEAN :
           IF out = "raise" \/ (options.do_target_decompilation /\ ~decompiles)
           THEN /\ Raise("BridgeError")
                /\ opened' = IF out = "raise" THEN opened ELSE Opened(opened, target)
                /\ fs' = AfterOpen(fs, options, out)
                /\ UNCHANGED << todo, commits >>
           ELSE /\ decompiles
                /\ opened' = Opened(opened, target)
                /\ \E g \in {IF options.do_target_decompilation
                             THEN Decompiled(AfterOpen(fs, options, out), options, target)
                             ELSE [err |-> "", fs |-> AfterOpen(fs, options, out)]} :
                       /\ fs' = g.fs
                       /\ IF g.err # ""
                          THEN Raise(g.err) /\ UNCHANGED << todo, commits >>
                          ELSE /\ commits' =
                                     IF options.do_target_decompilation
                                     THEN commits \cup
                                          {<<target_src(options, target),
                                             WorkTree(g.fs, target_src(options, target))>>}
                                     ELSE commits
                               /\ todo' = todo \ {target}
                               /\ Goto(IF todo = {target} THEN "zip" ELSE "import")
    /\ UNCHANGED << rwr, zp, zip_log, options, fs0, sysroot, ti, targets, deps, start_out, loaded, failed,
                    archive, launched >>

(* ---------------------------------------------------------------------- *)
(* ZipProject, lines 82-115, and main, lines 667-686                       *)
(* ---------------------------------------------------------------------- *)

project_zip(dir, name) == JoinPath(Parent(dir), <<name, DOT, "zip">>)

(* as ArcNames, were the directories left out *)
ArcNames_FilesOnly(f, dir) ==
    {PathStr(FALSE, SubSeq(p, Len(Stat(f, dir).at) + 1, Len(p))) :
        p \in {q \in DOMAIN f : /\ IsPrefix(Stat(f, dir).at, q)
                                /\ q # Stat(f, dir).at
                                /\ f[q].kind # "dir"}}

(* Lines 100-105: the archive names, one per path below the directory,    *)
(* relative to it.                                                        *)
ArcNames(f, dir) ==
    {PathStr(FALSE, SubSeq(p, Len(Stat(f, dir).at) + 1, Len(p))) :
        p \in {q \in DOMAIN f : IsPrefix(Stat(f, dir).at, q) /\ q # Stat(f, dir).at}}

(* zipf.write reads what a path names: a link that cannot be followed     *)
(* below the directory makes it raise.                                    *)
Unreadable(f, dir) ==
    \E p \in DOMAIN f : /\ IsPrefix(Stat(f, dir).at, p)
                        /\ p # Stat(f, dir).at
                        /\ Stat(f, CanonStr(p)).err # ""

(* How writing the archive can end: all is written; the archive cannot be *)
(* created; it is created and writing an entry fails.                     *)
ZipOutcomes == {"written", "nofile", "partial"}

(* ZipProject: err is "ValueError" for a project directory that is none   *)
(* (lines 83-84); else the archive is written, or creating or writing it  *)
(* fails.                                                                 *)
ZipProject(f, dir, name, how) ==
    IF ~is_dir(f, dir) THEN [err |-> "ValueError", fs |-> f, entries |-> {}]
    ELSE IF how = "nofile" THEN [err |-> "OSError", fs |-> f, entries |-> {}]
    ELSE [err |-> IF how = "written" /\ ~Unreadable(f, dir) THEN "" ELSE "OSError",
          fs |-> WriteNode(f, Locate(f, project_zip(dir, name)), File("zip")),
          entries |-> IF how = "written" /\ ~Unreadable(f, dir)
                      THEN ArcNames(f, dir) ELSE {}]

(* Lines 667-673: an exception of ZipProject is logged and main goes on. *)
Zip ==
    /\ pc = "zip"
    /\ IF ~options.zip_project
       THEN UNCHANGED << fs, archive, zip_log >>
       ELSE \E how \in ZipOutcomes :
                \E z \in {ZipProject(fs, project_dir(options), options.project_name,
                                     how)} :
                    /\ fs' = z.fs
                    /\ archive' = z.entries
                    /\ zip_log' = IF z.err = "" THEN "saved" ELSE "failed"
    /\ Goto("final")
    /\ UNCHANGED << rwr, zp, options, fs0, sysroot, ti, targets, deps, todo, start_out,
                    loaded, failed, opened, commits, launched >>

(* Line 682 *)
Launches(opts) == opts.start_ghidra

(* as Finish, were the project file not looked for *)
Finish_NoCheck ==
    /\ pc = "final"
    /\ launched' = Launches(options) /\ Return(0)
    /\ UNCHANGED << rwr, zp, zip_log, options, fs, fs0, sysroot, ti, targets, deps, todo, start_out,
                    loaded, failed, opened, archive, commits >>

(* Lines 675-686 *)
Finish ==
    /\ pc = "final"
    /\ IF is_file(fs, ghidra_project(options))
       THEN launched' = Launches(options) /\ Return(0)
       ELSE UNCHANGED launched /\ Return(EX_UNAVAILABLE)
    /\ UNCHANGED << rwr, zp, zip_log, options, fs, fs0, sysroot, ti, targets, deps, todo, start_out,
                    loaded, failed, opened, archive, commits >>

Next ==
    \/ CheckSysroot
    \/ ResolveTarget
    \/ RemoveExisting
    \/ CheckProjectExists
    \/ StartGhidra
    \/ SetupProject
    \/ LoadTarget
    \/ CheckTargets
    \/ ImportDep
    \/ ImportTarget
    \/ Zip
    \/ Finish

Spec == Init /\ [][Next]_vars

(* ---------------------------------------------------------------------- *)
(* ResolveWithRoot, lines 118-142, called on its own and run pass by pass  *)
(* ---------------------------------------------------------------------- *)

Digit == <<"0", "1", "2", "3", "4", "5", "6", "7", "8", "9">>

(* The name of the k-th link of a chain: "l" and three digits. *)
LinkName(k) ==
    <<"l", Digit[(k \div 100) + 1], Digit[((k \div 10) % 10) + 1], Digit[(k % 10) + 1]>>

ChainLen == 101

ChainAt == C(<<"ch">>)

(* A directory /ch with a file f and a chain of n links: the first to f,  *)
(* each other to the one before it.                                       *)
Chain(n) ==
    { <<ChainAt, Dir>>, <<Append(ChainAt, <<"f">>), File("ls")>> }
    \cup { <<Append(ChainAt, LinkName(k)),
             Link(IF k = 1 THEN <<"f">> ELSE LinkName(k - 1))>> : k \in 1..n }

LinkWorld == MkFS(BaseEntries \cup Chain(ChainLen))

(* The paths ResolveWithRoot is called with: every entry of the sbin and  *)
(* bin directories of the host and of the sysroot, a path that does not   *)
(* exist, a relative path, and links of the chain of every length from    *)
(* ChainLen - 3 on and a short one.                                       *)
ResolvePaths ==
    { CanonStr(p) : p \in {q \in DOMAIN LinkWorld :
                             /\ Len(q) >= 2
                             /\ q[Len(q) - 1] \in {<<"bin">>, <<"sbin">>}} }
    \cup { S(<<"bin", "MISSING">>), <<"bin", SEP, "sh">> }
    \cup { CanonStr(Append(ChainAt, LinkName(k))) :
             k \in {2} \cup ((ChainLen - 3)..ChainLen) }

ResolveRoots == { <<SEP>>, S(<<"sr">>) }

(* Line 119 *)
InitR ==
    /\ zp = NoCall
    /\ zip_log = ""
    /\ \E p \in ResolvePaths, root \in ResolveRoots :
           rwr = [path_to_resolve |-> p, sysroot |-> root,
                  current_path |-> PurePath(p), passes |-> 0, result |-> ""]
    /\ fs = LinkWorld
    /\ fs0 = fs
    /\ options = GetParser({}, <<SEP>>, <<>>)
    /\ pc = "ResolveWithRoot"
    /\ outcome = "running"
    /\ ret = 0
    /\ exc = ""
    /\ sysroot = NoPath
    /\ ti = 1
    /\ targets = {}
    /\ deps = {}
    /\ todo = {}
    /\ start_out = ""
    /\ loaded = {}
    /\ failed = {}
    /\ opened = <<>>
    /\ archive = {}
    /\ commits = {}
    /\ launched = FALSE

mvars == << options, fs, fs0, pc, outcome, ret, exc, sysroot, ti, targets, deps,
            todo, start_out, loaded, failed, opened, archive, commits, launched,
            zip_log, zp >>

InLoop == rwr.result = "" /\ rwr.passes < LinkLimit

(* Lines 122-124: the path is no symlink and is returned. *)
RwrReturn ==
    /\ InLoop
    /\ ~is_symlink(fs, rwr.current_path)
    /\ rwr' = [rwr EXCEPT !.result = "return"]
    /\ UNCHANGED mvars

(* Lines 127-139: the link is read and the next path is made. *)
RwrFollow ==
    /\ InLoop
    /\ is_symlink(fs, rwr.current_path)
    /\ ~RelativeToRaises(fs, rwr.current_path)
    /\ rwr' = [rwr EXCEPT !.current_path = NextPath(fs, rwr.current_path, rwr.sysroot),
                          !.passes = rwr.passes + 1]
    /\ UNCHANGED mvars

(* Line 132: relative_to raises. *)
RwrValueError ==
    /\ InLoop
    /\ is_symlink(fs, rwr.current_path)
    /\ RelativeToRaises(fs, rwr.current_path)
    /\ rwr' = [rwr EXCEPT !.result = "ValueError"]
    /\ UNCHANGED mvars

(* Lines 141-142: the loop has made all its passes. *)
RwrExhausted ==
    /\ rwr.result = ""
    /\ rwr.passes = LinkLimit
    /\ rwr' = [rwr EXCEPT !.result = "RecursionError"]
    /\ UNCHANGED mvars

NextR ==
    \/ RwrReturn
    \/ RwrFollow
    \/ RwrValueError
    \/ RwrExhausted

SpecR == InitR /\ [][NextR]_vars

(* ---------------------------------------------------------------------- *)
(* --zip-project: main run with the option, and ZipProject, lines 82-115,  *)
(* called on its own                                                       *)
(* ---------------------------------------------------------------------- *)

(* ZipCases: --zip-project, alone, with the decompilation and with        *)
(* --start-ghidra, for every list of two executables, on a fresh project  *)
(* directory and on one with sources of an earlier run.                   *)
ZipTargets == { S(<<"bin", "ls">>), S(<<"bin", "cp">>) }

ZipCases ==
    [flags : {{"zip_project"}, {"zip_project", "do_target_decompilation"},
              {"zip_project", "start_ghidra"}},
     sr : {<<SEP>>, S(<<"sr">>)},
     ts : UNION {[1..n -> ZipTargets] : n \in 1..MaxTargets},
     layout : {{}, StaleSources}]

(* The project directories ZipProject is called with: one that an earlier *)
(* run may have left, directories of the host (one of them holds a link   *)
(* to itself), a regular file and a link to itself.                       *)
ZipDirs ==
    { ProjectDirArg, S(<<"tmp">>), S(<<"lib">>), S(<<"sbin">>),
      S(<<"bin", "ls">>), S(<<"sbin", "loop">>) }

InitCall ==
    /\ rwr = NoFrame
    /\ zip_log = ""
    /\ \E dir \in ZipDirs, layout \in Layouts \cup {StaleSources} :
           /\ zp = [project_dir |-> dir, project_name |-> ProjectName, result |-> ""]
           /\ fs = MkFS(BaseEntries \cup layout)
    /\ fs0 = fs
    /\ options = GetParser({}, <<SEP>>, <<>>)
    /\ pc = "ZipProject"
    /\ outcome = "running"
    /\ ret = 0
    /\ exc = ""
    /\ sysroot = NoPath
    /\ ti = 1
    /\ targets = {}
    /\ deps = {}
    /\ todo = {}
    /\ start_out = ""
    /\ loaded = {}
    /\ failed = {}
    /\ opened = <<>>
    /\ archive = {}
    /\ commits = {}
    /\ launched = FALSE

InitZ == Start(ZipCases) \/ InitCall

(* Lines 82-115: the call returns the path of the archive or raises. *)
ZipProjectCall ==
    /\ pc = "ZipProject"
    /\ zp.result = ""
    /\ \E how \in ZipOutcomes :
           \E z \in {ZipProject(fs, zp.project_dir, zp.project_name, how)} :
               /\ fs' = z.fs
               /\ archive' = z.entries
               /\ zp' = [zp EXCEPT !.result = IF z.err = "" THEN "return" ELSE z.err]
    /\ UNCHANGED << rwr, zip_log, options, fs0, pc, outcome, ret, exc, sysroot, ti,
                    targets, deps, todo, start_out, loaded, failed, opened, commits,
                    launched >>

NextZ ==
    \/ CheckSysroot
    \/ ResolveTarget
    \/ RemoveExisting
    \/ CheckProjectExists
    \/ StartGhidra
    \/ SetupProject
    \/ LoadTarget
    \/ CheckTargets
    \/ ImportDep
    \/ ImportTarget
    \/ Zip
    \/ Finish
    \/ ZipProjectCall

SpecZ == InitZ /\ [][NextZ]_vars

(* ---------------------------------------------------------------------- *)
(* Properties                                                              *)
(* ---------------------------------------------------------------------- *)

Returned(code) == pc = "done" /\ outcome = "return" /\ ret = code

(* The sysroot of the command line, normalised and resolved on the file   *)
(* system main was called on, is no directory.                            *)
BadSysroot ==
    LET r == Resolve(fs0, PurePath(normpath(options.sysroot)))
    IN  r.err = "" /\ ~is_dir(fs0, CanonStr(r.at))

(* C1: when the sysroot, normalised and resolved, is no existing          *)
(* directory, main returns EX_NOINPUT and nothing else has happened: no   *)
(* target is resolved, the file system is as it was, Ghidra is not        *)
(* started and nothing is loaded or imported.                             *)
C1_BadSysrootReturnsNoInput ==
    (BadSysroot /\ pc # "sysroot") =>
        /\ Returned(EX_NOINPUT)
        /\ ti = 1 /\ targets = {}
        /\ fs = fs0
        /\ start_out = ""
        /\ loaded = {} /\ failed = {} /\ deps = {} /\ opened = <<>>
        /\ archive = {} /\ commits = {} /\ ~launched

(* main has returned for a missing sysroot although --force-remove was    *)
(* given and the project directory exists.                                *)
C1_Witness ==
    /\ BadSysroot /\ Returned(EX_NOINPUT)
    /\ options.force_remove /\ is_dir(fs0, project_dir(options))

(* The listed targets without a wildcard that name no regular file: glob  *)
(* and ResolveWithRoot end without an exception and find none.            *)
MissingTargets ==
    {i \in 1..Len(options.targets) :
        /\ ~HasMagic(options.targets[i])
        /\ LET scan == Scan(fs0, sysroot, options.targets[i])
           IN  scan.err = "" /\ ~scan.raising /\ ~scan.invalid /\ scan.found = {}}

(* C2: without --ignore-missing, when a listed target is no regular file, *)
(* main imports nothing and returns EX_NOINPUT, whatever else is listed   *)
(* (a return of the code for an existing project or for a bridge that     *)
(* does not start is let pass).                                           *)
C2_MissingTargetReturnsNoInput ==
    (/\ ~options.ignore_missing
     /\ pc # "sysroot" /\ ~BadSysroot /\ sysroot # NoPath
     /\ MissingTargets # {}) =>
        /\ opened = <<>>
        /\ (pc = "done" /\ outcome = "return"
              /\ ret \notin {EX_CANTCREAT, EX_UNAVAILABLE, EX_SOFTWARE})
            => ret = EX_NOINPUT

(* C3: at the existence check, a project file that exists without         *)
(* --force-import makes main return EX_CANTCREAT with Ghidra not started  *)
(* and nothing loaded or imported; otherwise main goes on to start        *)
(* Ghidra, and with --force-import it never returns EX_CANTCREAT.         *)
C3_ExistingProjectNeedsForce ==
    /\ [][pc = "exists" =>
            IF is_file(fs, ghidra_project(options)) /\ ~options.force_import
            THEN /\ pc' = "done" /\ outcome' = "return" /\ ret' = EX_CANTCREAT
                 /\ start_out' = "" /\ loaded' = {} /\ opened' = <<>>
                 /\ fs' = fs
            ELSE pc' = "start" /\ outcome' = "running"]_vars
    /\ [](options.force_import => ~Returned(EX_CANTCREAT))
    /\ [](Returned(EX_CANTCREAT) => start_out = "" /\ loaded = {} /\ opened = <<>>)

(* main has returned EX_CANTCREAT for a project file that was there.      *)
C3_Witness ==
    /\ Returned(EX_CANTCREAT)
    /\ is_file(fs0, ghidra_project(options))
    /\ ~options.force_import

(* C4: with --force-remove main never returns EX_CANTCREAT, and at the    *)
(* existence check nothing of the project directory is left, also with    *)
(* --remove-existing-binaries and with --force-import.                    *)
C4_ForceRemoveNeverCantCreat ==
    options.force_remove =>
        /\ ~Returned(EX_CANTCREAT)
        /\ pc \in {"exists", "start"} =>
              /\ ~lexists(fs, project_dir(options))
              /\ ~is_file(fs, ghidra_project(options))
              /\ fs = Restrict(fs0, DOMAIN fs)

(* The existence check is reached with --force-remove and                 *)
(* --remove-existing-binaries on a project that existed.                  *)
C4_Witness ==
    /\ pc = "exists"
    /\ options.force_remove /\ options.remove_existing_binaries
    /\ is_file(fs0, ghidra_project(options))
    /\ FilesIn(fs0, bin_dir(options)) # {}

(* C5: when pyghidra.start() raises, main returns EX_UNAVAILABLE for a    *)
(* ValueError and EX_SOFTWARE for another exception; bin/, lib/ and src/  *)
(* are not created, nothing is loaded and nothing is imported.            *)
C5_StartFailureCodes ==
    start_out \in {"ValueError", "Exception"} =>
        /\ pc = "done" /\ outcome = "return"
        /\ start_out = "ValueError" => ret = EX_UNAVAILABLE
        /\ start_out = "Exception" => ret = EX_SOFTWARE
        /\ DOMAIN fs \subseteq DOMAIN fs0
        /\ \A d \in {bin_dir(options), lib_dir(options), src_dir(options)} :
               lexists(fs, d) => lexists(fs0, d)
        /\ loaded = {} /\ failed = {} /\ deps = {} /\ opened = <<>>

(* pyghidra.start() has raised an exception that is no ValueError on a    *)
(* run that had targets and no project directory.                         *)
C5_Witness ==
    /\ start_out = "Exception"
    /\ targets # {}
    /\ ~lexists(fs0, project_dir(options))

(* C6 as stated: a target the loader raises for never makes main return   *)
(* the error code of line 512.                                            *)
C6_FailedTargetNeverFatal ==
    failed # {} => ~Returned(EX_NOINPUT)

(* What holds in every state of a run, of the targets the loader raised  *)
(* for.                                                                   *)
FailedTargetsLeftOut ==
    /\ targets \cap failed = {}
    /\ loaded \cap failed = {}
    /\ pc = "load" => todo # {} /\ targets = loaded \cup todo
    /\ pc \in {"check", "deps", "import", "zip", "final"} => targets = loaded
    /\ (failed # {} /\ Returned(EX_NOINPUT)) => loaded = {}
    /\ (failed # {} /\ pc \in {"deps", "import", "zip", "final"}) => loaded # {}
    /\ Returned(0) => /\ loaded \subseteq DOMAIN opened
                      /\ (failed \cap DOMAIN opened) \subseteq deps

(* C6, amended: a target the loader raises for leaves the import set, no  *)
(* dependency is recorded and nothing is copied for it, and the loop goes *)
(* on with the targets left; after the loop the import set is the set of  *)
(* targets that loaded; main returns EX_NOINPUT after a failure only when *)
(* no target loaded, and a run that returns 0 has imported every target   *)
(* that loaded and no target that failed, unless that one is a dependency *)
(* of a target that loaded.                                               *)
C6_FailedTargetDropped ==
    /\ [][failed' # failed =>
            /\ pc = "load" /\ outcome' = "running"
            /\ targets' = targets \ failed'
            /\ deps' = deps /\ loaded' = loaded /\ fs' = fs
            /\ pc' = (IF todo' = {} THEN "check" ELSE "load")]_vars
    /\ []FailedTargetsLeftOut

(* main has returned 0 on a run where the loader raised for one target    *)
(* and loaded another that has dependencies.                              *)
C6_Witness ==
    /\ Returned(0)
    /\ failed # {} /\ loaded # {} /\ deps # {}

(* C7: no exception of the bridge leaves main: each is caught and mapped  *)
(* to an exit code.                                                       *)
C7_BridgeErrorsCaught ==
    ~(pc = "done" /\ outcome = "raise" /\ exc \in BridgeErrors)

(* C8: a call of main that returns yields 0 or one of the codes           *)
(* EX_NOINPUT, EX_UNAVAILABLE, EX_SOFTWARE, EX_CANTCREAT, EX_IOERR.       *)
C8_ReturnsExitCode ==
    (pc = "done" /\ outcome # "raise") =>
        /\ outcome = "return"
        /\ ret \in {0, EX_NOINPUT, EX_UNAVAILABLE, EX_SOFTWARE, EX_CANTCREAT,
                    EX_IOERR}

(* C9: with --ignore-missing a listed target that resolves to no regular  *)
(* file is skipped: ResolveWithRoot does not end the run while the        *)
(* targets are resolved.                                                  *)
C9_IgnoreMissingSkips ==
    (options.ignore_missing /\ pc = "done" /\ ti <= Len(options.targets))
        => ~(outcome = "raise" /\ exc = "RecursionError")

(* C10: with --skip-dependency-import no dependency is recorded, no file  *)
(* is added to lib/, only targets that loaded are imported, and a file    *)
(* added to bin/ has the name of a target that loaded.                    *)
C10_SkipDependencyImport ==
    options.skip_dependency_import =>
        /\ deps = {}
        /\ pc # "deps"
        /\ FilesIn(fs, lib_dir(options)) \subseteq FilesIn(fs0, lib_dir(options))
        /\ DOMAIN opened \subseteq loaded
        /\ \A p \in FilesIn(fs, bin_dir(options)) \ FilesIn(fs0, bin_dir(options)) :
               Last(p) \in {Name(t) : t \in loaded}

(* main has returned 0 with --skip-dependency-import, --copy-to-project   *)
(* and --do-dependency-analysis, for a target that has dependencies.      *)
C10_Witness ==
    /\ Returned(0)
    /\ options.skip_dependency_import
    /\ options.copy_to_project
    /\ options.do_dependency_analysis
    /\ \E t \in loaded : Binaries(fs0, sysroot, t, FALSE) # {}
    /\ FilesIn(fs, bin_dir(options)) # {}

(* C11: after main returns 0 with --copy-to-project on a project whose    *)
(* bin/ and lib/ held no file, bin/ holds one regular file per imported   *)
(* target and lib/ one per dependency recorded; without --copy-to-project *)
(* no file is added to bin/ or lib/.                                      *)
C11_OneCopyPerBinary ==
    Returned(0) =>
        IF options.copy_to_project
        THEN (FilesIn(fs0, bin_dir(options)) = {} /\ FilesIn(fs0, lib_dir(options)) = {})
             => /\ Cardinality(FilesIn(fs, bin_dir(options))) = Cardinality(targets)
                /\ Cardinality(FilesIn(fs, lib_dir(options))) = Cardinality(deps)
        ELSE /\ FilesIn(fs, bin_dir(options)) \subseteq FilesIn(fs0, bin_dir(options))
             /\ FilesIn(fs, lib_dir(options)) \subseteq FilesIn(fs0, lib_dir(options))

(* The regular files of the directory dir are copies of members of the    *)
(* set from: each has the name and the content of one of them.            *)
OnlyCopiesOf(dir, from) ==
    \A p \in FilesIn(fs, dir) :
        \E t \in from : Name(t) = Last(p) /\ fs[p].id = fs[Stat(fs, t).at].id

(* C12: with --remove-existing-binaries, once the clean-up is done and    *)
(* until the first copy, bin/ and lib/ hold no regular file; and when     *)
(* main has returned 0 with --copy-to-project, every regular file of bin/ *)
(* is the copy of a target of this run and every regular file of lib/ the *)
(* copy of a dependency of this run.                                      *)
C12_RemoveExistingBinaries ==
    options.remove_existing_binaries =>
        /\ pc \in {"exists", "start", "setup"} =>
              /\ FilesIn(fs, bin_dir(options)) = {}
              /\ FilesIn(fs, lib_dir(options)) = {}
              /\ loaded = {}
        /\ (Returned(0) /\ options.copy_to_project) =>
              /\ OnlyCopiesOf(bin_dir(options), targets)
              /\ OnlyCopiesOf(lib_dir(options), deps)

(* main has returned 0 with --remove-existing-binaries, --force-import    *)
(* and --copy-to-project on a project that had files in bin/ and lib/.    *)
C12_Witness ==
    /\ Returned(0)
    /\ options.remove_existing_binaries /\ options.force_import
    /\ options.copy_to_project
    /\ is_file(fs0, ghidra_project(options))
    /\ FilesIn(fs0, bin_dir(options)) # {} /\ FilesIn(fs0, lib_dir(options)) # {}
    /\ FilesIn(fs, bin_dir(options)) # {} /\ FilesIn(fs, lib_dir(options)) # {}

(* C13: when main has returned 0, the project directory, bin/, lib/ and   *)
(* src/ are directories and the project file is a regular file; and the   *)
(* step after the import phase returns EX_UNAVAILABLE without launching   *)
(* Ghidra when the project file is absent, 0 when it is there.            *)
C13_ProjectTreeAtSuccess ==
    /\ [](Returned(0) =>
            /\ \A d \in {project_dir(options), bin_dir(options),
                         lib_dir(options), src_dir(options)} : is_dir(fs, d)
            /\ is_file(fs, ghidra_project(options)))
    /\ [][pc = "final" =>
            /\ pc' = "done" /\ outcome' = "return" /\ fs' = fs
            /\ IF is_file(fs, ghidra_project(options))
               THEN ret' = 0
               ELSE ret' = EX_UNAVAILABLE /\ ~launched']_vars
    /\ [](launched => Returned(0) /\ options.start_ghidra)

(* The imports are done, --start-ghidra is set, the project file is not   *)
(* there and main has returned EX_UNAVAILABLE.                            *)
C13_Witness ==
    /\ Returned(EX_UNAVAILABLE)
    /\ opened # <<>>
    /\ options.start_ghidra
    /\ ~is_file(fs, ghidra_project(options))

(* C14: ResolveWithRoot follows at most 100 links and ends in one of two  *)
(* ways: it returns a path that is no symlink, or it raises               *)
(* RecursionError.                                                        *)
C14_BoundedTwoWays ==
    /\ rwr.passes <= LinkLimit
    /\ rwr.result \in {"", "return", "RecursionError"}
    /\ rwr.result = "return" => ~is_symlink(fs, rwr.current_path)

(* The file the path names lies in the sysroot directory or below it. *)
InsideSysroot(path) ==
    /\ Stat(fs0, path).err = ""
    /\ IsPrefix(Stat(fs0, sysroot).at, Stat(fs0, path).at)

(* C15: with a sysroot other than "/", every path added to the import set *)
(* of targets lies inside the sysroot directory.                          *)
C15_TargetsInsideSysroot ==
    (sysroot # NoPath /\ sysroot # <<SEP>>) =>
        \A t \in targets : InsideSysroot(t)


(* C16: with a sysroot other than "/", the target string is looked up at   *)
(* the sysroot joined with the normalised string made relative, every     *)
(* component name of it kept; with the sysroot "/" it is looked up at its *)
(* own resolved absolute path.                                            *)
C16_LookupPath ==
    (pc = "targets" /\ sysroot # NoPath) =>
        LET arg == options.targets[ti]
            tp == TargetPath(fs, sysroot, arg)
        IN  IF sysroot # <<SEP>>
            THEN tp.path = PathStr(TRUE, Parts(sysroot) \o Parts(normpath(arg)))
            ELSE tp.err = "" =>
                     tp.path = CanonStr(Resolve(fs, PurePath(normpath(arg))).at)


(* The path a chain of symlinks from path_to_resolve ends in, followed    *)
(* for as many links as the file system has: a chain that is not circular *)
(* names no link twice, so it has ended by then.                          *)
ChainEnd ==
    LET links == {p \in DOMAIN fs : fs[p].kind = "link"}
    IN  Iterate(fs, [path |-> PurePath(rwr.path_to_resolve), links |-> 0,
                     err |-> ""], rwr.sysroot, Cardinality(links))

(* C17: ResolveWithRoot raises RecursionError only for circular symlinks: *)
(* for every chain of symlinks that is not circular and ends in a path    *)
(* that is no symlink, it returns that path, and a path that is no        *)
(* symlink is returned unchanged.                                         *)
C17_OnlyCircularRaises ==
    rwr.result # "" =>
        /\ (ChainEnd.err = "" /\ ~is_symlink(fs, ChainEnd.path)) =>
               (rwr.result = "return" /\ rwr.current_path = ChainEnd.path)
        /\ (rwr.result = "return" /\ rwr.passes = 0) =>
               rwr.current_path = PurePath(rwr.path_to_resolve)


(* The imports are over: main is at the zip step or behind it. *)
ImportsDone == pc \in {"zip", "final"} \/ Returned(0) \/ Returned(EX_UNAVAILABLE)

(* C18: the phases of a run come in one order and each binary is handled  *)
(* once: nothing is loaded, opened or made in the project directory       *)
(* before Ghidra has started; no target is opened while dependencies are  *)
(* still to be imported; once the imports are over each member of deps    *)
(* and each member of targets has been opened exactly once; the archive   *)
(* is written only after the imports; ghidraRun is launched only at the   *)
(* return of 0, with --start-ghidra and the project file in place.        *)
C18_PhasesInOrder ==
    /\ (loaded # {} \/ failed # {} \/ opened # <<>>) => start_out = "ok"
    /\ pc = "deps" => \A t \in targets \ deps : Count(opened, t) = 0
    /\ (ImportsDone /\ start_out = "ok" /\ targets # {}) =>
           \A x \in deps \cup targets : Count(opened, x) = 1
    /\ archive # {} => ImportsDone
    /\ launched => /\ Returned(0)
                   /\ options.start_ghidra
                   /\ is_file(fs, ghidra_project(options))


(* The symlinks in the directory at. *)
LinksAt(f, at) ==
    {p \in DOMAIN f : Len(p) = Len(at) + 1 /\ Front(p) = at /\ f[p].kind = "link"}

(* The pass of the loop over targets for the target t has left src/<name  *)
(* of t> as the claim C19 says and has committed it.                      *)
DecompiledAsSaid(t) ==
    LET at == Stat(fs', target_src(options, t)).at
        list == FunctionsOf(fs[Stat(fs, t).at].id)
        fns == {list[i] : i \in 1..Len(list)}
        good == {g \in fns : ~g.thunk /\ ~g.error}
        file(g) == Append(at, <<g.entry, DOT, "c">>)
        link(g) == Append(at, <<g.entry, "::">> \o g.name \o <<DOT, "c">>)
    IN  /\ is_dir(fs', target_src(options, t))
        /\ LinksAt(fs', at) = {link(g) : g \in good}
        /\ \A g \in good : /\ fs'[file(g)] = File(g.c)
                             /\ fs'[link(g)] = Link(<<g.entry, DOT, "c">>)
        /\ \A g \in fns \ good :
               file(g) \in DOMAIN fs' => (file(g) \in DOMAIN fs /\ fs'[file(g)] = fs[file(g)])
        /\ commits' = commits \cup {<<target_src(options, t),
                                       WorkTree(fs', target_src(options, t))>>}

(* C19: with --do-target-decompilation, each pass of the loop over the    *)
(* targets in which the target is opened and the decompiler does not fail *)
(* leaves in src/<target name> no symlink but the ones of the functions   *)
(* that are no thunks and decompiled without error, each named            *)
(* "<entry point>::<function>.c" and pointing to the file                 *)
(* "<entry point>.c" that holds its code; thunks and failed functions get *)
(* no file and no link; and the directory is committed as it is after all *)
(* functions.  Without the option nothing is committed.                   *)
C19_Decompilation ==
    /\ [][(pc = "import" /\ opened' # opened /\ options.do_target_decompilation
              /\ ~(pc' = "done" /\ exc' = "BridgeError")) =>
             \E t \in todo : todo' = todo \ {t} /\ DecompiledAsSaid(t)]_vars
    /\ [][~options.do_target_decompilation => commits' = commits]_vars


(* The archive of the project directory dir is in place in the file       *)
(* system and holds one entry per path below dir, named relative to it.   *)
ArchiveHoldsAll(dir, name) ==
    LET at == Stat(fs, dir).at
        below == {p \in DOMAIN fs : IsPrefix(at, p) /\ p # at}
    IN  /\ is_file(fs, JoinPath(Parent(dir), <<name, DOT, "zip">>))
        /\ Cardinality(archive) = Cardinality(below)
        /\ \A p \in below : Join(SubSeq(p, Len(at) + 1, Len(p))) \in archive

ProjectEntries(f) ==
    LET at == Locate(fs0, project_dir(options))
    IN  {<<p, f[p]>> : p \in {q \in DOMAIN f : IsPrefix(at, q)}}

(* C21: a run of main that ends with EX_NOINPUT or EX_CANTCREAT leaves    *)
(* the project directory as it was before the run: no existing project is *)
(* removed, no file is removed from bin/ or lib/, and neither the project *)
(* directory nor a subdirectory of it is created.                         *)
C21_ErrorLeavesProject ==
    (Returned(EX_NOINPUT) \/ Returned(EX_CANTCREAT)) =>
        ProjectEntries(fs) = ProjectEntries(fs0)

============================================================================
